---- MODULE Spec2Model ----
(***************************************************************************)
(* A model of src/experimentation.py: the padded stacking of ragged        *)
(* arrays, the attention-logit and clustering helpers, the per-sample loop *)
(* of run_experiment and the sweep over configurations of __main__.        *)
(*                                                                         *)
(* Numbers held in arrays are kept as integers in units of one half (the   *)
(* integer 3 is the value 1.5), so that the cast of a float to an integer  *)
(* dtype is visible.  Matrices produced by the model, the projectors and   *)
(* the external libraries are symbolic records that say what they were     *)
(* computed from.                                                          *)
(***************************************************************************)
EXTENDS Integers, Sequences, FiniteSets

VARIABLES
    call, args, ret,                      \* a helper called on its own
    combinations, sample_size, num_hidden_layers,
    pc, i, sample_idx, target,            \* control of the sweep and of run_experiment
    overview_df, results,                 \* the tables of one run_experiment call
    hidden_states, sim_matrices, queries, keys, logit_matrices,
    files,                                \* what is on disk under rawsults/
    attempts, failed, processed           \* history of the sweep

fnvars == <<call, args, ret>>
cfgvars == <<combinations, sample_size, num_hidden_layers>>
ctlvars == <<pc, i, sample_idx, target>>
tblvars == <<overview_df, results>>
locvars == <<hidden_states, sim_matrices, queries, keys, logit_matrices>>
histvars == <<attempts, failed, processed>>
runvars == <<cfgvars, ctlvars, tblvars, locvars, files, histvars>>
vars == <<fnvars, runvars>>

(***************************************************************************)
(* Bounds of the model.                                                    *)
(***************************************************************************)
MaxStack == 2        \* arrays in one stack_padded call
MaxDim == 2          \* size of an array along one dimension
MaxPoints == 6       \* rows (tokens) of a matrix handed to compute_clustering
MaxData == 1         \* layers handed to one compute_clustering call
MaxLayers == 2       \* hidden layers of the model, and length of a projector list
MaxSamples == 2      \* sample_size
MaxConfigs == 2      \* configurations of one sweep

Ranks == 0..2        \* ranks of the arrays handed to stack_padded

SetMax(S) == CHOOSE m \in S : \A x \in S : x <= m

Min(a, b) == IF a <= b THEN a ELSE b

Returned(v) == [state |-> "returned", value |-> v]

Raised(e) == [state |-> "raised", exc |-> e]

Pending == [state |-> "pending"]

(***************************************************************************)
(* numpy arrays: a shape, a dtype and one element per index.  Indices are  *)
(* 0-based as in numpy.                                                    *)
(***************************************************************************)
Indices(shape) ==
    {idx \in [1..Len(shape) -> 0..(MaxDim + 1)] :
        \A dim \in 1..Len(shape) : idx[dim] < shape[dim]}

\* Conversion to a dtype: an integer dtype drops the fraction (towards zero).
astype(x, dtype) ==
    IF dtype = "float64" THEN x
    ELSE IF x >= 0 THEN x - (x % 2) ELSE 0 - ((0 - x) - ((0 - x) % 2))

RECURSIVE Flat(_)
Flat(idx) == IF idx = <<>> THEN 0 ELSE Head(idx) + (MaxDim + 2) * Flat(Tail(idx))

\* The arrays the callers are drawn from: every element non-zero and different
\* from its neighbours; "whole" values are integers, the others carry a half.
Elem(kind, idx) ==
    CASE kind = "int64" -> 2 * (Flat(idx) + 1)
      [] kind = "whole" -> 2 * (Flat(idx) + 1)
      [] kind = "frac" -> 2 * (Flat(idx) + 1) + 1
      [] kind = "negfrac" -> 0 - (2 * (Flat(idx) + 1) + 1)

ArrayKinds == {"int64", "whole", "frac", "negfrac"}

MakeArray(shape, kind) ==
    [shape |-> shape,
     dtype |-> IF kind = "int64" THEN "int64" ELSE "float64",
     data |-> [idx \in Indices(shape) |-> Elem(kind, idx)]]

ArraysOfRank(r) ==
    {MakeArray(shape, kind) : shape \in [1..r -> 1..MaxDim], kind \in ArrayKinds}

ArrayLists ==
    UNION {[1..n -> ArraysOfRank(r)] : n \in 0..MaxStack, r \in Ranks}

(***************************************************************************)
(* stack_padded                                                            *)
(***************************************************************************)
\* Variant: the shape of the first array instead of the largest sizes.
target_shape_first(ndarray_list) ==
    <<Len(ndarray_list)>> \o ndarray_list[1].shape

\* [len(ndarray_list), max over the arrays of shape[dim] for every dim]
target_shape(ndarray_list) ==
    <<Len(ndarray_list)>> \o
    [dim \in 1..Len(ndarray_list[1].shape) |->
        SetMax({ndarray_list[a].shape[dim] : a \in 1..Len(ndarray_list)})]

np_full(shape, fill_value, dtype) ==
    [shape |-> shape,
     dtype |-> dtype,
     data |-> [idx \in Indices(shape) |-> astype(fill_value, dtype)]]

\* stacked_array[i, 0:a.shape[0], ..., 0:a.shape[r-1]] = a
setitem(stacked_array, slot, a) ==
    [shape |-> stacked_array.shape,
     dtype |-> stacked_array.dtype,
     data |-> [idx \in DOMAIN stacked_array.data |->
        IF idx[1] = slot /\ \A dim \in 1..Len(a.shape) : idx[dim + 1] < a.shape[dim]
        THEN astype(a.data[Tail(idx)], stacked_array.dtype)
        ELSE stacked_array.data[idx]]]

RECURSIVE copy_loop(_, _, _)
copy_loop(stacked_array, ndarray_list, n) ==
    IF n > Len(ndarray_list) THEN stacked_array
    ELSE copy_loop(setitem(stacked_array, n - 1, ndarray_list[n]), ndarray_list, n + 1)

\* Variant: no check of the list, an empty list gives an empty array.
stack_padded_unchecked(ndarray_list, pad_value) ==
    IF ndarray_list = <<>>
    THEN Returned(np_full(<<0>>, pad_value, "float64"))
    ELSE Returned(copy_loop(np_full(target_shape(ndarray_list), pad_value,
                                    ndarray_list[1].dtype), ndarray_list, 1))

\* assert ndarray_list; np.full; the copy loop
stack_padded(ndarray_list, pad_value) ==
    IF ndarray_list = <<>>
    THEN Raised("AssertionError")
    ELSE Returned(copy_loop(np_full(target_shape(ndarray_list), pad_value,
                                    ndarray_list[1].dtype), ndarray_list, 1))

(***************************************************************************)
(* The run_experiment variables while a helper is checked on its own.      *)
(***************************************************************************)
RunIdle ==
    /\ combinations = <<>> /\ sample_size = 0 /\ num_hidden_layers = 1
    /\ pc = "idle" /\ i = 0 /\ sample_idx = 0 /\ target = 0
    /\ overview_df = <<>> /\ results = <<>>
    /\ hidden_states = <<>> /\ sim_matrices = <<>>
    /\ queries = <<>> /\ keys = <<>> /\ logit_matrices = <<>>
    /\ files = {} /\ attempts = <<>> /\ failed = {} /\ processed = <<>>

InitStack ==
    /\ call = "stack_padded"
    /\ \E l \in ArrayLists : args = [ndarray_list |-> l]
    /\ ret = Pending
    /\ RunIdle

\* stack_padded(val), with the default pad_value=0
CallStackPadded ==
    /\ call = "stack_padded" /\ ret = Pending
    /\ ret' = stack_padded(args.ndarray_list, 0)
    /\ UNCHANGED <<call, args, runvars>>

SpecStack == InitStack /\ [][CallStackPadded]_vars

(***************************************************************************)
(* Matrices, projectors and the Matrix Builder helpers.                    *)
(***************************************************************************)
MIN_NUM_TOKENS == 300

\* Token counts get_random_input may return (at least MIN_NUM_TOKENS).
TokenCounts == {MIN_NUM_TOKENS, MIN_NUM_TOKENS + 1}

ModelTypes == {"albert", "bert", "gpt2"}

Heads == {0, 1}

\* output.hidden_states[layer].squeeze(0): an N x d matrix
Rep(layer, N) == [kind |-> "hidden_state", input |-> "input_ids", layer |-> layer, N |-> N]

\* head_extractor(module): x -> module(x)[..., head slice]
Projector(proj, module, index, head) ==
    [proj |-> proj, module |-> module, index |-> index, head |-> head]

Cos(X) == [kind |-> "cos_similarity", input |-> X.kind, layer |-> X.layer, N |-> X.N, X |-> X]

Logit(X, query, key) ==
    [kind |-> "attention_logits", input |-> X.kind, layer |-> X.layer, N |-> X.N,
     X |-> X, Q |-> query, K |-> key]

compute_cos_similarities(hs) == [n \in 1..Len(hs) |-> Cos(hs[n])]

\* zip() stops at the shortest of its arguments
compute_attention_logits(hs, qs, ks) ==
    Returned([n \in 1..Min(Len(hs), Min(Len(qs), Len(ks))) |-> Logit(hs[n], qs[n], ks[n])])

\* The projector lists of a model of the given type with num_layers layers.
ProjectorList(model_type, proj, num_layers, head) ==
    IF model_type = "albert"
    THEN [n \in 1..num_layers |-> Projector(proj, "albert_layer_groups[0].albert_layers[0]", 0, head)]
    ELSE [n \in 1..num_layers |-> Projector(proj, "encoder.layer", n - 1, head)]

extract_queries_and_keys(model_type, num_layers, head) ==
    IF model_type \in {"albert", "bert"}
    THEN Returned(<<ProjectorList(model_type, "query", num_layers, head),
                    ProjectorList(model_type, "key", num_layers, head)>>)
    ELSE Raised("NotImplementedError")

InitLogits ==
    /\ call = "compute_attention_logits"
    /\ \E h \in 0..MaxLayers, q \in 0..MaxLayers, k \in 0..MaxLayers,
          N \in TokenCounts, t \in {"albert", "bert"} :
          args = [hidden_states |-> [n \in 1..h |-> Rep(n - 1, N)],
                  queries |-> ProjectorList(t, "query", q, 0),
                  keys |-> ProjectorList(t, "key", k, 0)]
    /\ ret = Pending
    /\ RunIdle

CallAttentionLogits ==
    /\ call = "compute_attention_logits" /\ ret = Pending
    /\ ret' = compute_attention_logits(args.hidden_states, args.queries, args.keys)
    /\ UNCHANGED <<call, args, runvars>>

SpecLogits == InitLogits /\ [][CallAttentionLogits]_vars

(***************************************************************************)
(* compute_clustering.  PCA and HDBSCAN are external: what they give for   *)
(* one layer is the label vector clustering.labels_, drawn here from the   *)
(* vectors HDBSCAN(min_cluster_size) can return: -1 for noise, clusters    *)
(* 0..K-1, each with at least min_cluster_size members.                    *)
(***************************************************************************)
min_cluster_size == 3

Count(labels, c) == Cardinality({p \in DOMAIN labels : labels[p] = c})

LabelVectors(N) ==
    {v \in [1..N -> (0 - 1)..((N \div min_cluster_size) - 1)] :
        \A c \in 0..SetMax({v[p] : p \in 1..N}) : Count(v, c) >= min_cluster_size}

\* The constant score, and a score computed by fn on (X, labels).
Sentinel == [by |-> "constant", value |-> "1.0"]

Score(fn, X, labels) == [by |-> fn, X |-> X, labels |-> labels]

\* Variant: the largest label itself.
num_clusters_no_offset(labels) == SetMax({labels[p] : p \in DOMAIN labels})

\* clustering.labels_.max() + 1
num_clusters(labels) == SetMax({labels[p] : p \in DOMAIN labels}) + 1

\* (labels == -1).sum() / len(labels), kept as a fraction
outlier_rate(labels) == [num |-> Count(labels, 0 - 1), den |-> Len(labels)]

layer_metrics(X, labels) ==
    <<num_clusters(labels),
      outlier_rate(labels),
      IF num_clusters(labels) > 1 THEN Score("silhouette_score", X, labels) ELSE Sentinel,
      IF num_clusters(labels) > 1 THEN Score("validity_index", X, labels) ELSE Sentinel>>

\* fit[n] is clustering.labels_ of layer n
compute_clustering(data, fit) ==
    Returned([labels |-> [n \in 1..Len(data) |-> fit[n]],
              metrics |-> [n \in 1..Len(data) |-> layer_metrics(data[n], fit[n])]])

InitCluster ==
    /\ call = "compute_clustering"
    /\ \E len \in 0..MaxData, N \in 1..MaxPoints, t \in {"token", "attention_logit"} :
          args = [data |-> [n \in 1..len |->
                     IF t = "token" THEN Rep(n, N)
                     ELSE Logit(Rep(n - 1, N), Projector("query", "encoder.layer", n - 1, 0),
                                Projector("key", "encoder.layer", n - 1, 0))]]
    /\ ret = Pending
    /\ RunIdle

CallClustering ==
    /\ call = "compute_clustering" /\ ret = Pending
    /\ \E fit \in [1..Len(args.data) ->
                      IF args.data = <<>> THEN {} ELSE LabelVectors(args.data[1].N)] :
          ret' = compute_clustering(args.data, fit)
    /\ UNCHANGED <<call, args, runvars>>

SpecCluster == InitCluster /\ [][CallClustering]_vars

(***************************************************************************)
(* run_experiment and the sweep of __main__.                               *)
(*                                                                         *)
(* A configuration of the sweep is kept as its model type: the dataset and *)
(* the two flags only choose the text source, the weights and the name of  *)
(* the output directory, which differs for every configuration and is kept *)
(* as the configuration's index.  An array of a result list is kept as its *)
(* shape and what it was stacked from; a file as its name and shape.       *)
(***************************************************************************)
ResultKeys ==
    {"token_similarity", "attention_logits",
     "token_cluster_labels", "token_cluster_metrics", "token_t-SNE_embeddings",
     "attention_logit_cluster_labels", "attention_logit_cluster_metrics",
     "attention_logit_t-SNE_embeddings"}

Targets == <<"token", "attention_logit">>

\* What a result entry keeps of an array: its kind, what it was computed from
\* and the hidden-state index behind it.
Describe(a) == [kind |-> a.kind, input |-> a.input, layer |-> a.layer]

\* The outputs of the Structure Analyzer for one layer X of data.
Analysed(fn, X) == [kind |-> fn, input |-> X.kind, layer |-> X.layer]

\* np.stack(arrays) of arrays of shape elem_shape
np_stack(arrays, elem_shape) ==
    [shape |-> <<Len(arrays)>> \o elem_shape,
     of |-> [n \in 1..Len(arrays) |-> Describe(arrays[n])]]

\* Variant: the input-embedding layer is kept.
IgnoreInputLayerNot(s) == s

\* hidden_states[1:]
IgnoreInputLayer(s) == Tail(s)

\* Variant: the first layer is dropped instead of the last.
AllButFirst(s) == Tail(s)

\* hidden_states[:-1]
AllButLast(s) == SubSeq(s, 1, Len(s) - 1)

Append1(tbl, key, entry) == [tbl EXCEPT ![key] = Append(@, entry)]

NumTokens == overview_df[sample_idx].num_tokens

Init ==
    /\ call = "none" /\ args = <<>> /\ ret = [state |-> "none"]
    /\ combinations \in UNION {[1..n -> ModelTypes] : n \in 1..MaxConfigs}
    /\ sample_size \in 0..MaxSamples
    /\ num_hidden_layers \in 1..MaxLayers
    /\ pc = "sweep" /\ i = 1 /\ sample_idx = 0 /\ target = 1
    /\ overview_df = <<>>
    /\ results = [key \in ResultKeys |-> <<>>]
    /\ hidden_states = <<>> /\ sim_matrices = <<>>
    /\ queries = <<>> /\ keys = <<>> /\ logit_matrices = <<>>
    /\ files = {}
    /\ attempts = [c \in DOMAIN combinations |-> 0]
    /\ failed = {}
    /\ processed = [c \in DOMAIN combinations |-> 0]

\* The next configuration of the sweep: run_experiment up to its sample loop.
\* Building the model or the tokeniser may raise, before the tables exist.
StartExperiment ==
    /\ pc = "sweep" /\ i <= Len(combinations)
    /\ attempts' = [attempts EXCEPT ![i] = @ + 1]
    /\ \E outcome \in {"ok", "build_model raises"} :
          IF outcome = "ok"
          THEN /\ overview_df' = <<>>
               /\ results' = [key \in ResultKeys |-> <<>>]
               /\ hidden_states' = <<>> /\ sim_matrices' = <<>>
               /\ queries' = <<>> /\ keys' = <<>> /\ logit_matrices' = <<>>
               /\ sample_idx' = 0 /\ target' = 1
               /\ pc' = "sample"
          ELSE /\ pc' = "except"
               /\ UNCHANGED <<tblvars, locvars, sample_idx, target>>
    /\ UNCHANGED <<fnvars, cfgvars, i, files, failed, processed>>

\* get_random_input and the sample's row of the overview table
GetInput ==
    /\ pc = "sample" /\ sample_idx < sample_size
    /\ \E N \in TokenCounts :
          overview_df' = [s \in (DOMAIN overview_df) \union {sample_idx} |->
                             IF s = sample_idx THEN [num_tokens |-> N] ELSE overview_df[s]]
    /\ pc' = "forward"
    /\ UNCHANGED <<fnvars, cfgvars, i, sample_idx, target, results, locvars, files, histvars>>

\* the model's hidden states and the token similarities
Forward ==
    /\ pc = "forward"
    /\ hidden_states' = [n \in 1..(num_hidden_layers + 1) |-> Rep(n - 1, NumTokens)]
    /\ sim_matrices' = compute_cos_similarities(IgnoreInputLayer(hidden_states'))
    /\ results' = Append1(results, "token_similarity",
                          np_stack(sim_matrices', <<NumTokens, NumTokens>>))
    /\ pc' = "extract"
    /\ UNCHANGED <<fnvars, cfgvars, i, sample_idx, target, overview_df,
                   queries, keys, logit_matrices, files, histvars>>

\* a random head and its projectors; an unsupported model type raises
ExtractQueriesAndKeys ==
    /\ pc = "extract"
    /\ \E head \in Heads :
          LET r == extract_queries_and_keys(combinations[i], num_hidden_layers, head) IN
          IF r.state = "returned"
          THEN /\ queries' = r.value[1] /\ keys' = r.value[2]
               /\ pc' = "logits"
          ELSE /\ UNCHANGED <<queries, keys>>
               /\ pc' = "except"
    /\ UNCHANGED <<fnvars, cfgvars, i, sample_idx, target, tblvars,
                   hidden_states, sim_matrices, logit_matrices, files, histvars>>

AttentionLogits ==
    /\ pc = "logits"
    /\ logit_matrices' = compute_attention_logits(AllButLast(hidden_states), queries, keys).value
    /\ results' = Append1(results, "attention_logits",
                          np_stack(logit_matrices', <<NumTokens, NumTokens>>))
    /\ pc' = "analyse" /\ target' = 1
    /\ UNCHANGED <<fnvars, cfgvars, i, sample_idx, overview_df,
                   hidden_states, sim_matrices, queries, keys, files, histvars>>

\* One round of "for target in ...": clustering and t-SNE of data, either of
\* which may raise, then the three appends; after the last target the sample
\* is done.
Analyse ==
    /\ pc = "analyse"
    /\ LET name == Targets[target]
           data == IF name = "X" THEN IgnoreInputLayer(hidden_states) ELSE logit_matrices
       IN \E outcome \in {"ok", "compute_clustering raises", "compute_tsne_embeddings raises"} :
          IF outcome = "ok"
          THEN /\ results' =
                    Append1(Append1(Append1(results,
                        name \o "_cluster_labels",
                        np_stack([n \in 1..Len(data) |-> Analysed("cluster_labels", data[n])],
                                 <<NumTokens>>)),
                        name \o "_cluster_metrics",
                        np_stack([n \in 1..Len(data) |-> Analysed("cluster_metrics", data[n])],
                                 <<4>>)),
                        name \o "_t-SNE_embeddings",
                        np_stack([n \in 1..Len(data) |-> Analysed("t-SNE_embeddings", data[n])],
                                 <<NumTokens, 2>>))
               /\ IF target < Len(Targets)
                  THEN /\ target' = target + 1
                       /\ UNCHANGED <<pc, sample_idx, processed>>
                  ELSE /\ sample_idx' = sample_idx + 1
                       /\ processed' = [processed EXCEPT ![i] = sample_idx + 1]
                       /\ pc' = "sample"
                       /\ UNCHANGED target
          ELSE /\ pc' = "except"
               /\ UNCHANGED <<results, target, sample_idx, processed>>
    /\ UNCHANGED <<fnvars, cfgvars, i, overview_df, locvars, files, attempts, failed>>

\* Variant: the saving starts after the first sample.
SaveOverviewEarly ==
    /\ pc = "sample" /\ sample_idx >= Min(1, sample_size)
    /\ files' = files \union
          {[cfg |-> i, name |-> "0verview.csv", shape |-> <<Cardinality(DOMAIN overview_df)>>]}
    /\ pc' = "save"
    /\ UNCHANGED <<fnvars, cfgvars, i, sample_idx, target, tblvars, locvars, histvars>>

\* after the loop: overview_df.to_csv
SaveOverview ==
    /\ pc = "sample" /\ sample_idx >= sample_size
    /\ files' = files \union
          {[cfg |-> i, name |-> "0verview.csv", shape |-> <<Cardinality(DOMAIN overview_df)>>]}
    /\ pc' = "save"
    /\ UNCHANGED <<fnvars, cfgvars, i, sample_idx, target, tblvars, locvars, histvars>>

\* np.save of stack_padded(val) for every non-empty result list; run_experiment
\* returns and the sweep moves on
SaveResults ==
    /\ pc = "save"
    /\ files' = files \union
          {[cfg |-> i, name |-> key \o ".npy", shape |-> target_shape(results[key])] :
              key \in {k \in ResultKeys : results[k] # <<>>}}
    /\ pc' = "sweep" /\ i' = i + 1
    /\ UNCHANGED <<fnvars, cfgvars, sample_idx, target, tblvars, locvars, histvars>>

\* Variant: the failed configuration is run again.
HandleExceptionRetry ==
    /\ pc = "except"
    /\ failed' = failed \union {i}
    /\ pc' = "sweep"
    /\ UNCHANGED <<fnvars, cfgvars, i, sample_idx, target, tblvars, locvars, files,
                   attempts, processed>>

\* except Exception: print FAILED and go on with the next configuration
HandleException ==
    /\ pc = "except"
    /\ failed' = failed \union {i}
    /\ pc' = "sweep" /\ i' = i + 1
    /\ UNCHANGED <<fnvars, cfgvars, sample_idx, target, tblvars, locvars, files,
                   attempts, processed>>

Next ==
    \/ StartExperiment
    \/ GetInput
    \/ Forward
    \/ ExtractQueriesAndKeys
    \/ AttentionLogits
    \/ Analyse
    \/ SaveOverview
    \/ SaveResults
    \/ HandleException

Spec == Init /\ [][Next]_vars

(***************************************************************************)
(* Properties.                                                             *)
(***************************************************************************)
StackArgs == args.ndarray_list

StackCalled == call = "stack_padded" /\ ret # Pending

InRegion(idx, a) == \A dim \in 1..Len(a.shape) : idx[dim + 1] < a.shape[dim]

\* out has shape [S, m_1, ..., m_r], m_k the largest size along dimension k
ShapeIsMax(out, l) ==
    /\ Len(out.shape) = Len(l[1].shape) + 1
    /\ out.shape[1] = Len(l)
    /\ \A dim \in 1..Len(l[1].shape) :
          /\ \A n \in 1..Len(l) : l[n].shape[dim] <= out.shape[dim + 1]
          /\ \E n \in 1..Len(l) : l[n].shape[dim] = out.shape[dim + 1]
    /\ DOMAIN out.data = Indices(out.shape)

\* C1 as stated: for every non-empty list of same-rank arrays stack_padded
\* returns an array of shape [S, max shape] whose slot i holds input i,
\* element for element, in its top-left region and 0 everywhere else.
C1_StackedEqualsInputs ==
    (StackCalled /\ StackArgs # <<>>) =>
        /\ ret.state = "returned"
        /\ ShapeIsMax(ret.value, StackArgs)
        /\ \A idx \in DOMAIN ret.value.data :
              ret.value.data[idx] =
                 IF InRegion(idx, StackArgs[idx[1] + 1])
                 THEN StackArgs[idx[1] + 1].data[Tail(idx)]
                 ELSE 0

\* C1 amended: the same, but the region of slot i holds input i converted to
\* the dtype of the first input; it is input i itself whenever input i has
\* that dtype.
C1_StackedEqualsConvertedInputs ==
    (StackCalled /\ StackArgs # <<>>) =>
        /\ ret.state = "returned"
        /\ ShapeIsMax(ret.value, StackArgs)
        /\ ret.value.dtype = StackArgs[1].dtype
        /\ \A idx \in DOMAIN ret.value.data :
              LET a == StackArgs[idx[1] + 1] IN
              /\ InRegion(idx, a) =>
                    ret.value.data[idx] = astype(a.data[Tail(idx)], StackArgs[1].dtype)
              /\ (InRegion(idx, a) /\ a.dtype = StackArgs[1].dtype) =>
                    ret.value.data[idx] = a.data[Tail(idx)]
              /\ ~InRegion(idx, a) => ret.value.data[idx] = 0

\* Two arrays of one dtype and of shapes [1,2] and [2,1] were stacked into
\* [2,2,2]: both slots are padded.
C1_Witness ==
    /\ StackCalled /\ ret.state = "returned"
    /\ Len(StackArgs) = 2
    /\ StackArgs[1].shape = <<1, 2>> /\ StackArgs[2].shape = <<2, 1>>
    /\ StackArgs[1].dtype = StackArgs[2].dtype
    /\ ret.value.shape = <<2, 2, 2>>
    /\ ret.value.data[<<0, 1, 0>>] = 0
    /\ ret.value.data[<<1, 1, 0>>] = StackArgs[2].data[<<1, 0>>]

\* C8: stack_padded of an empty list fails and returns no array.
C8_EmptyListFails ==
    (StackCalled /\ StackArgs = <<>>) => (ret.state = "raised" /\ ret.exc = "AssertionError")

C8_Witness == StackCalled /\ StackArgs = <<>> /\ ret.state = "raised"

LogitsCalled == call = "compute_attention_logits" /\ ret # Pending

\* C7: compute_attention_logits fails whenever the layer stack and either
\* projector list differ in length; it never returns a result then.
C7_MismatchedLengthsFail ==
    (/\ LogitsCalled
     /\ \/ Len(args.hidden_states) # Len(args.queries)
        \/ Len(args.hidden_states) # Len(args.keys))
    => ret.state = "raised"

ClusterCalled == call = "compute_clustering" /\ ret.state = "returned"

\* C6: for every layer the metrics are (K, outlier rate, cohesion, validity)
\* with K = max label + 1 and outlier rate = (number of -1 labels) / N in
\* [0,1]; with K <= 1 both scores are the constant 1.0, and a score function is
\* used only with K > 1.
C6_ClusterMetrics ==
    ClusterCalled =>
        /\ Len(ret.value.labels) = Len(args.data)
        /\ Len(ret.value.metrics) = Len(args.data)
        /\ \A n \in 1..Len(args.data) :
              LET v == ret.value.labels[n]
                  m == ret.value.metrics[n]
                  N == args.data[n].N
              IN /\ Len(v) = N /\ Len(m) = 4
                 /\ \A p \in 1..N : v[p] <= m[1] - 1
                 /\ (m[1] > 0 => \E p \in 1..N : v[p] = m[1] - 1)
                 /\ (m[1] = 0 <=> \A p \in 1..N : v[p] = 0 - 1)
                 /\ m[2].num = Cardinality({p \in 1..N : v[p] = 0 - 1})
                 /\ m[2].den = N
                 /\ 0 <= m[2].num /\ m[2].num <= m[2].den /\ m[2].den > 0
                 /\ (m[1] <= 1 => (m[3] = Sentinel /\ m[4] = Sentinel))
                 /\ (m[3] # Sentinel => (m[1] > 1 /\ m[3].by = "silhouette_score"))
                 /\ (m[4] # Sentinel => (m[1] > 1 /\ m[4].by = "validity_index"))

\* A layer with one cluster and one outlier got the constant scores.
C6_Witness ==
    /\ ClusterCalled
    /\ \E n \in 1..Len(args.data) :
          /\ ret.value.metrics[n][1] = 1
          /\ ret.value.metrics[n][2] = [num |-> 1, den |-> 4]
          /\ ret.value.metrics[n][3] = Sentinel
          /\ ret.value.metrics[n][4] = Sentinel

InSweep == pc # "idle"

EntriesFrom(key, kind) ==
    \A e \in 1..Len(results[key]) :
        \A n \in 1..Len(results[key][e].of) : results[key][e].of[n].input = kind

\* C2: what is recorded under the token_* keys is computed from the sample's
\* token representations, and what is recorded under the attention_logit_*
\* keys from its attention-logit matrices.
C2_TargetsUseOwnInputs ==
    InSweep =>
        /\ EntriesFrom("token_cluster_labels", "hidden_state")
        /\ EntriesFrom("token_cluster_metrics", "hidden_state")
        /\ EntriesFrom("token_t-SNE_embeddings", "hidden_state")
        /\ EntriesFrom("attention_logit_cluster_labels", "attention_logits")
        /\ EntriesFrom("attention_logit_cluster_metrics", "attention_logits")
        /\ EntriesFrom("attention_logit_t-SNE_embeddings", "attention_logits")

\* C3: at every point of run_experiment, also where a step has raised, the
\* overview table and the eight result lists all hold sample s's entry or
\* none of them does.
C3_RecordsAreAtomic ==
    pc \in {"sample", "forward", "extract", "logits", "analyse", "save", "except"} =>
        \A s \in 0..MaxSamples :
            \/ s \in DOMAIN overview_df /\ \A key \in ResultKeys : Len(results[key]) > s
            \/ s \notin DOMAIN overview_df /\ \A key \in ResultKeys : Len(results[key]) <= s

LastOf(key) == results[key][Len(results[key])]

\* C4: of the L+1 hidden states 0..L, the token similarities are computed on
\* exactly 1..L and the attention logits on exactly 0..L-1, the projectors at
\* list index n applied to the hidden state at index n; both have L layers.
C4_LayerSlices ==
    pc = "analyse" =>
        LET L == num_hidden_layers IN
        /\ Len(hidden_states) = L + 1
        /\ \A n \in 1..(L + 1) : hidden_states[n].layer = n - 1
        /\ Len(queries) = L /\ Len(keys) = L
        /\ Len(sim_matrices) = L /\ Len(logit_matrices) = L
        /\ \A n \in 1..L :
              /\ sim_matrices[n].kind = "cos_similarity"
              /\ sim_matrices[n].X.layer = n
              /\ logit_matrices[n].kind = "attention_logits"
              /\ logit_matrices[n].X.layer = n - 1
              /\ logit_matrices[n].Q = queries[n]
              /\ logit_matrices[n].K = keys[n]
        /\ LastOf("token_similarity").of = [n \in 1..L |-> Describe(sim_matrices[n])]
        /\ LastOf("attention_logits").of = [n \in 1..L |-> Describe(logit_matrices[n])]

\* A two-layer bert sample, whose projectors differ from layer to layer.
C4_Witness ==
    /\ pc = "analyse" /\ num_hidden_layers = 2 /\ combinations[i] = "bert"
    /\ logit_matrices[2].Q # logit_matrices[1].Q
    /\ logit_matrices[2].X.layer = 1 /\ sim_matrices[2].X.layer = 2

Completed(c) == c < i /\ c \notin failed

FilesOf(c) == {f \in files : f.cfg = c}

LargestTokenCount == SetMax({overview_df[s].num_tokens : s \in DOMAIN overview_df})

\* C5: when run_experiment completes, the overview table has the rows
\* 0..S-1, row s with the token count of sample s, each of the eight result
\* lists has S entries of L layers, and every saved array has leading shape
\* [S, L]; token_similarity is [S, L, N_max, N_max].
C5_CompleteTables ==
    \A c \in DOMAIN combinations :
        Completed(c) =>
            /\ [cfg |-> c, name |-> "0verview.csv", shape |-> <<sample_size>>] \in files
            /\ \A f \in FilesOf(c) :
                  f.name # "0verview.csv" =>
                      (f.shape[1] = sample_size /\ f.shape[2] = num_hidden_layers)
            /\ sample_size > 0 =>
                  \A key \in ResultKeys : \E f \in FilesOf(c) : f.name = key \o ".npy"
            /\ (pc = "sweep" /\ c = i - 1) =>
                  /\ DOMAIN overview_df = 0..(sample_size - 1)
                  /\ \A key \in ResultKeys :
                        /\ Len(results[key]) = sample_size
                        /\ \A e \in 1..sample_size :
                              results[key][e].shape[1] = num_hidden_layers
                  /\ \A s \in 0..(sample_size - 1) :
                        results["token_similarity"][s + 1].shape =
                           <<num_hidden_layers, overview_df[s].num_tokens,
                             overview_df[s].num_tokens>>
                  /\ sample_size > 0 =>
                        [cfg |-> c, name |-> "token_similarity.npy",
                         shape |-> <<sample_size, num_hidden_layers, LargestTokenCount, LargestTokenCount>>]
                           \in files

\* A completed run of two samples of different token counts on two layers.
C5_Witness ==
    /\ pc = "sweep" /\ i = 2 /\ Completed(1)
    /\ sample_size = 2 /\ num_hidden_layers = 2
    /\ overview_df[0].num_tokens < overview_df[1].num_tokens
    /\ Cardinality(FilesOf(1)) = 9

\* C9: nothing is stacked or written before every sample of the run has been
\* processed, and a run in which a sample raised writes no file at all.
C9_SaveAfterAllSamples ==
    \A f \in files :
        /\ processed[f.cfg] = sample_size
        /\ f.cfg \notin failed
        /\ f.cfg = i => pc = "save"

\* One configuration failed in its second sample and left no file, another
\* wrote its arrays.
C9_Witness ==
    /\ \E c \in failed : processed[c] = 1 /\ FilesOf(c) = {}
    /\ \E f \in files : f.name = "attention_logits.npy" /\ f.shape[1] = 2

SweepDone == pc = "sweep" /\ i = Len(combinations) + 1

\* C10: a configuration whose run_experiment raises is attempted once and not
\* retried, the configurations after it are attempted in order, the sweep
\* goes on to its end, and every configuration starts from empty tables.
C10_SweepGoesOn ==
    InSweep =>
        /\ i \in 1..(Len(combinations) + 1)
        /\ \A c \in DOMAIN combinations :
              /\ attempts[c] = IF c < i \/ (c = i /\ pc # "sweep") THEN 1 ELSE 0
              /\ (c < i /\ sample_size > 0 /\ combinations[c] \notin {"albert", "bert"})
                    => c \in failed
        /\ failed \subseteq 1..(i - 1)
        /\ (pc = "sample" /\ sample_idx = 0) =>
              (overview_df = <<>> /\ \A key \in ResultKeys : results[key] = <<>>)
        /\ SweepDone \/ ENABLED Next

\* A configuration of an unsupported model type failed and the one after it
\* has been started.
C10_Witness ==
    /\ InSweep
    /\ \E c \in failed :
          /\ combinations[c] = "gpt2"
          /\ c + 1 \in DOMAIN combinations
          /\ attempts[c + 1] = 1
          /\ c + 1 \notin failed /\ c + 1 < i

====
